---- MODULE Spec2Model ----
(***************************************************************************)
(* Model of the Vedic DOB application (src/app.py) and of the approximate  *)
(* Panchanga helpers (src/panchanga.py).                                    *)
(*                                                                         *)
(* Angles are Python floats in the source.  They are modelled as integers  *)
(* counting units of 1/Scale degree, in a binary floating-point format     *)
(* with Precision significant bits: every arithmetic result is rounded to  *)
(* the nearest representable value (ties to even), as IEEE-754 does with   *)
(* 53 bits.  Dates are day ordinals, clock times are minutes after         *)
(* midnight, instants are minutes of universal time since the epoch.       *)
(***************************************************************************)
EXTENDS Integers, Sequences, FiniteSets, TLC

\* ------------------------------------------------------------------------
\* Bounds of the numeric model
\* ------------------------------------------------------------------------
FracBits == 5

Precision == 9

Scale == 2^FracBits

Deg(d) == d * Scale

\* Python None, and a value that is not None
None == << >>

Some(v) == <<v>>

Val(o) == o[1]

Abs(n) == IF n < 0 THEN -n ELSE n

Max(a, b) == IF a >= b THEN a ELSE b

Min(a, b) == IF a <= b THEN a ELSE b

\* ------------------------------------------------------------------------
\* Floating-point arithmetic
\* ------------------------------------------------------------------------
RECURSIVE Pow2Floor(_)
Pow2Floor(n) == IF n < 2 THEN 1 ELSE 2 * Pow2Floor(n \div 2)

\* spacing of the representable values around a magnitude of n units
Quantum(n) == Max(1, Pow2Floor(Abs(n)) \div 2^(Precision - 1))

\* nearest multiple of q to the non-negative rational num/den, ties to even
NearestMultiple(num, den, q) ==
    LET k   == num \div (den * q)
        rem == num - k * den * q
        up  == \/ 2 * rem > den * q
               \/ (2 * rem = den * q /\ k % 2 = 1)
    IN  (IF up THEN k + 1 ELSE k) * q

\* the float nearest to the exact rational num/den (in units)
RoundRatio(num, den) ==
    LET mag == Abs(num) \div den
        r   == NearestMultiple(Abs(num), den, Quantum(mag))
    IN  IF num < 0 THEN -r ELSE r

RoundFloat(n) == RoundRatio(n, 1)

FloatAdd(x, y) == RoundFloat(x + y)

FloatSub(x, y) == RoundFloat(x - y)

\* x * k for a float x and a small integer k
FloatMulInt(x, k) == RoundFloat(x * k)

\* x / y for floats x and y, y > 0
FloatDiv(x, y) == RoundRatio(x * Scale, y)

\* C fmod: exact, result has the sign of x
Fmod(x, y) == IF x >= 0 THEN x % y ELSE -((-x) % y)

\* Python float %, y > 0: fmod, then y is added to a negative remainder and
\* the sum is rounded like any other float addition
PyFloatMod(x, y) ==
    LET mod == Fmod(x, y)
    IN  IF mod < 0 THEN FloatAdd(mod, y) ELSE mod

\* Python float // for x >= 0, y > 0, followed by int()
PyFloorDiv(x, y) == x \div y

\* ------------------------------------------------------------------------
\* Panchang element derivation (src/app.py, src/panchanga.py)
\* ------------------------------------------------------------------------
tithis == << "Pratipada", "Dvitiya", "Tritiya", "Chaturthi", "Panchami",
             "Shashthi", "Saptami", "Ashtami", "Navami", "Dashami",
             "Ekadashi", "Dwadashi", "Trayodashi", "Chaturdashi",
             "Purnima/Amavasya" >>

nakshatra_names == << "Ashwini", "Bharani", "Krittika", "Rohini", "Mrigashirsha",
             "Ardra", "Punarvasu", "Pushya", "Ashlesha", "Magha",
             "Purva Phalguni", "Uttara Phalguni", "Hasta", "Chitra",
             "Swati", "Vishakha", "Anuradha", "Jyeshtha", "Mula",
             "Purva Ashadha", "Uttara Ashadha", "Shravana", "Dhanishta",
             "Shatabhisha", "Purva Bhadrapada", "Uttara Bhadrapada", "Revati" >>

rashi_names == << "Mesha", "Vrishabha", "Mithuna", "Karka", "Simha", "Kanya",
             "Tula", "Vrischika", "Dhanu", "Makara", "Kumbha", "Meena" >>

months == << "Chaitra", "Vaishakha", "Jyeshtha", "Ashadha", "Shravana",
             "Bhadrapada", "Ashwin", "Kartika", "Margashirsha", "Pausha",
             "Magha", "Phalguna" >>

tithi_names == << "Prathama", "Dvitiya", "Tritiya", "Chaturthi", "Panchami",
             "Shashthi", "Saptami", "Ashtami", "Navami", "Dashami",
             "Ekadashi", "Dwadashi", "Trayodashi", "Chaturdashi",
             "Purnima/Amavasya" >>

\* names[i] of a Python list, index from 0
PyIndex(names, i) == names[i + 1]

\* app.py tithi_from_sidereal: (tnum, "<paksha> <tname>", paksha, diff)
tithi_from_sidereal(sun_sid, moon_sid) ==
    LET diff   == PyFloatMod(moon_sid - sun_sid, Deg(360))
        tnum   == PyFloorDiv(diff, Deg(12)) + 1
        paksha == IF tnum <= 15 THEN "Shukla" ELSE "Krishna"
        tname  == PyIndex(tithis, (tnum - 1) % 15)
    IN  [tnum |-> tnum, tname |-> <<paksha, tname>>, paksha |-> paksha,
         diff |-> diff]

\* panchanga.py get_tithi, from the two longitudes it computes for jd
get_tithi(moon_long, sun_long) ==
    LET diff       == PyFloatMod(moon_long - sun_long, Deg(360))
        tithi_num  == PyFloorDiv(diff, Deg(12)) + 1
        fortnight  == IF diff < Deg(180) THEN "Shukla Paksha"
                                         ELSE "Krishna Paksha"
        tithi_name == PyIndex(tithi_names, (tithi_num - 1) % 15)
    IN  [tithi_num |-> tithi_num, tithi_name |-> tithi_name,
         fortnight |-> fortnight]

\* app.py nakshatra_from_sidereal: (name, index 1..27, deg_into, pada)
nakshatra_from_sidereal(moon_sid) ==
    LET sector   == FloatDiv(Deg(360), Deg(27))
        m        == PyFloatMod(moon_sid, Deg(360))
        idx0     == PyFloorDiv(m, sector)
        deg_into == FloatSub(m, FloatMulInt(sector, idx0))
        pada     == PyFloorDiv(deg_into, FloatDiv(sector, Deg(4))) + 1
    IN  [name |-> PyIndex(nakshatra_names, idx0), idx |-> idx0 + 1,
         deg_into |-> deg_into, pada |-> pada]

\* app.py rashi_from_sidereal: (name, index 1..12, deg_into)
rashi_from_sidereal(moon_sid) ==
    LET m   == PyFloatMod(moon_sid, Deg(360))
        idx == PyFloorDiv(m, Deg(30))
    IN  [name |-> PyIndex(rashi_names, idx), idx |-> idx + 1,
         deg_into |-> FloatSub(m, Deg(30) * idx)]

\* app.py rashi_from_sidereal_sun: (name, index 1..12, deg_into)
rashi_from_sidereal_sun(sun_sid) ==
    LET m   == PyFloatMod(sun_sid, Deg(360))
        idx == PyFloorDiv(m, Deg(30))
    IN  [name |-> PyIndex(rashi_names, idx), idx |-> idx + 1,
         deg_into |-> FloatSub(m, Deg(30) * idx)]

\* app.py masa_from_sidereal
masa_from_sidereal(sun_sid) ==
    LET idx == PyFloorDiv(PyFloatMod(FloatAdd(sun_sid, Deg(30)), Deg(360)),
                          Deg(30))
    IN  PyIndex(months, idx)

\* ------------------------------------------------------------------------
\* Calendar and clock
\* ------------------------------------------------------------------------
BaseYear == 2026

IsLeap(y) == (y % 4 = 0 /\ y % 100 # 0) \/ y % 400 = 0

YearLen(y) == IF IsLeap(y) THEN 366 ELSE 365

\* ordinal of date(y, 1, 1), counted from date(BaseYear, 1, 1)
RECURSIVE Jan1(_)
Jan1(y) == IF y <= BaseYear THEN 0 ELSE Jan1(y - 1) + YearLen(y - 1)

MinutesPerDay == 1440

\* dtime(12, 0)
Noon == 720

\* pytz.timezone(name): the zone's offset in minutes, or None when it raises
PytzTimezone(name) ==
    CASE name = "Asia/Kolkata" -> Some(330)
      [] name = "UTC"          -> Some(0)
      [] OTHER                 -> None

\* tz.localize(datetime.combine(d, t))
Localize(tz, d, t) == [date |-> d, time |-> t, utcoffset |-> tz]

PlusDays_back(dt, n) == [dt EXCEPT !.date = dt.date - n]

\* aware datetime + timedelta(days=n): the wall clock and the offset are kept
PlusDays(dt, n) == [dt EXCEPT !.date = dt.date + n]

\* jd_from_utc(dt.astimezone(pytz.utc)), in minutes of universal time
jd_from_utc(dt) == dt.date * MinutesPerDay + dt.time - dt.utcoffset

\* ------------------------------------------------------------------------
\* State
\* ------------------------------------------------------------------------
VARIABLES
    pc,                       \* position of the submit handler
    form,                     \* st.session_state inputs of the request
    env,                      \* today, current_year, supabase client, ephemeris
    lat, lon, tz_name,        \* location and zone used by the request
    jd_ut,                    \* birth instant
    ref,                      \* elements derived for the birth instant
    spc,                      \* position inside find_vedic_anniversary
    start_date_obj, max_days, \* its arguments
    i, cand_local,            \* its loop index and candidate datetime
    ret,                      \* its return value
    vedic_dob_requested_year, vedic_dob_next_year,
    requested_year_value, next_year_value,
    ui,                       \* messages shown by st.warning/error/success
    db,                       \* rows inserted in the users table
    swe_topo,                 \* observer set by swe.set_topo (process wide)
    calls,                    \* number of swe.calc_ut reads so far
    last_eval,                \* loop index of the latest candidate read
    thr,                      \* concurrent computations (SpecTopo)
    pure                      \* inputs and outputs of the pure derivations

reqVars == <<pc, form, env, lat, lon, tz_name, jd_ut, ref,
             vedic_dob_requested_year, vedic_dob_next_year,
             requested_year_value, next_year_value, ui, db>>

srchVars == <<spc, start_date_obj, max_days, i, cand_local, ret, last_eval>>

sweVars == <<swe_topo, calls>>

vars == <<reqVars, srchVars, sweVars, thr, pure>>

\* ------------------------------------------------------------------------
\* Ephemeris (swisseph).  What swe.calc_ut answers for an instant is fixed
\* by env: it raises for the days of env.fail, and otherwise returns the
\* longitudes the scenario assigns to the day of the instant.  Instants
\* before the epoch are the birth instant.
\* ------------------------------------------------------------------------
OtherRaw == [sun |-> Deg(200), moon |-> Deg(300)]

\* the birth longitudes, one turn further when that is representable
FullRaw(b) ==
    LET turn(x) == IF RoundFloat(x + Deg(360)) = x + Deg(360)
                   THEN x + Deg(360) ELSE x
    IN  [sun |-> turn(b.sun), moon |-> turn(b.moon)]

\* same tithi and masa as the birth longitudes, another nakshatra
PartRaw(b) ==
    IF b.sun = Deg(10) THEN [sun |-> Deg(10), moon |-> Deg(135)]
                       ELSE [sun |-> b.sun, moon |-> b.sun + Deg(4)]

\* swe.calc_ut for the Sun and the Moon at jd: None when it raises
calc_ut(jd) ==
    LET d == jd \div MinutesPerDay
    IN  IF d < 0
        THEN (IF env.birth_fails THEN None ELSE Some(env.birth_raw))
        ELSE IF env.fail_all \/ d \in env.fail THEN None
        ELSE IF d \in env.full THEN Some(FullRaw(env.birth_raw))
        ELSE IF d \in env.part THEN Some(PartRaw(env.birth_raw))
        ELSE Some(OtherRaw)

\* value returned by sun_moon_sidereal_topo, None when it raises
sun_moon_sidereal_topo(jd) ==
    LET r == calc_ut(jd)
    IN  IF r = None THEN None
        ELSE Some([sun_sid  |-> PyFloatMod(Val(r).sun, Deg(360)),
                   moon_sid |-> PyFloatMod(Val(r).moon, Deg(360))])

\* effect of sun_moon_sidereal_topo on the ephemeris library
TopoCall(jd, lon_deg, lat_deg) ==
    /\ swe_topo' = <<lon_deg, lat_deg, 0>>
    /\ calls' = calls + (IF calc_ut(jd) = None THEN 1 ELSE 2)

\* the elements the submit handler derives from the birth longitudes
Elements(sm) ==
    LET t == tithi_from_sidereal(sm.sun_sid, sm.moon_sid)
        n == nakshatra_from_sidereal(sm.moon_sid)
        r == rashi_from_sidereal(sm.moon_sid)
    IN  [tnum |-> t.tnum, tname |-> t.tname, paksha |-> t.paksha,
         nak_name |-> n.name, nak_pada |-> n.pada,
         rashi_name |-> r.name,
         sun_rashi_name |-> rashi_from_sidereal_sun(sm.sun_sid).name,
         masa_name |-> masa_from_sidereal(sm.sun_sid)]

\* ------------------------------------------------------------------------
\* find_vedic_anniversary(start_date_obj, max_days)
\* ------------------------------------------------------------------------
CycleDays == 365

DefaultMaxDays == 380

\* local_tz of the search: the request's zone, Asia/Kolkata when it is unknown
SearchTz ==
    IF PytzTimezone(tz_name) = None THEN Val(PytzTimezone("Asia/Kolkata"))
                                    ELSE Val(PytzTimezone(tz_name))

start_dt_localized_birth_time ==
    Localize(SearchTz, start_date_obj, form.input_time)

\* line 355: noon of the start date, in the zone of the search
start_dt_localized == Localize(SearchTz, start_date_obj, Noon)

\* cand_local of iteration k
CandAt(k) == PlusDays(start_dt_localized, k)

Cand == CandAt(i)

jd_c == jd_from_utc(Cand)

BreakCond_early == i >= CycleDays

BreakCond_late ==
    i >= CycleDays /\ Cand.date > start_date_obj + CycleDays + 1

\* "Stop search after a reasonable cycle"
BreakCond == i >= CycleDays /\ Cand.date > start_date_obj + CycleDays

FullMatch_tithi_masa(sm) ==
    /\ tithi_from_sidereal(sm.sun_sid, sm.moon_sid).tnum = Val(ref).tnum
    /\ masa_from_sidereal(sm.sun_sid) = Val(ref).masa_name

\* "Full Match (Tithi, Nakshatra, Moon Rashi, Masa)"
FullMatch(sm) ==
    /\ tithi_from_sidereal(sm.sun_sid, sm.moon_sid).tnum = Val(ref).tnum
    /\ nakshatra_from_sidereal(sm.moon_sid).name = Val(ref).nak_name
    /\ rashi_from_sidereal(sm.moon_sid).name = Val(ref).rashi_name
    /\ masa_from_sidereal(sm.sun_sid) = Val(ref).masa_name

\* entry of the function: lines 347-355
CallFind(start, md) ==
    /\ spc' = "loop"
    /\ start_date_obj' = start
    /\ max_days' = md
    /\ i' = 0
    /\ cand_local' = None
    /\ ret' = None
    /\ last_eval' = -1

\* range(max_days) is used up, or the break of line 363: return None
LoopEnd ==
    /\ spc = "loop"
    /\ i >= max_days \/ BreakCond
    /\ cand_local' = (IF i >= max_days THEN cand_local ELSE Some(Cand))
    /\ ret' = None
    /\ spc' = "returned"
    /\ UNCHANGED <<start_date_obj, max_days, i, last_eval>>
    /\ UNCHANGED <<reqVars, sweVars, thr, pure>>

IterProviderFails_stops ==
    /\ spc = "loop"
    /\ i < max_days /\ ~BreakCond
    /\ sun_moon_sidereal_topo(jd_c) = None
    /\ TopoCall(jd_c, lon, lat)
    /\ cand_local' = Some(Cand)
    /\ last_eval' = i
    /\ ret' = None
    /\ spc' = "returned"
    /\ UNCHANGED <<start_date_obj, max_days, i>>
    /\ UNCHANGED <<reqVars, thr, pure>>

\* the provider raises for the candidate: continue
IterProviderFails ==
    /\ spc = "loop"
    /\ i < max_days /\ ~BreakCond
    /\ sun_moon_sidereal_topo(jd_c) = None
    /\ TopoCall(jd_c, lon, lat)
    /\ cand_local' = Some(Cand)
    /\ last_eval' = i
    /\ i' = i + 1
    /\ UNCHANGED <<spc, start_date_obj, max_days, ret>>
    /\ UNCHANGED <<reqVars, thr, pure>>

\* the candidate's four elements equal the reference: return its date
IterMatch ==
    /\ spc = "loop"
    /\ i < max_days /\ ~BreakCond
    /\ sun_moon_sidereal_topo(jd_c) # None
    /\ FullMatch(Val(sun_moon_sidereal_topo(jd_c)))
    /\ TopoCall(jd_c, lon, lat)
    /\ cand_local' = Some(Cand)
    /\ last_eval' = i
    /\ ret' = Some(Cand.date)
    /\ spc' = "returned"
    /\ UNCHANGED <<start_date_obj, max_days, i>>
    /\ UNCHANGED <<reqVars, thr, pure>>

\* some element differs: next candidate
IterNoMatch ==
    /\ spc = "loop"
    /\ i < max_days /\ ~BreakCond
    /\ sun_moon_sidereal_topo(jd_c) # None
    /\ ~FullMatch(Val(sun_moon_sidereal_topo(jd_c)))
    /\ TopoCall(jd_c, lon, lat)
    /\ cand_local' = Some(Cand)
    /\ last_eval' = i
    /\ i' = i + 1
    /\ UNCHANGED <<spc, start_date_obj, max_days, ret>>
    /\ UNCHANGED <<reqVars, thr, pure>>

\* ------------------------------------------------------------------------
\* Scenarios: bounded families of inputs and of ephemeris behaviour
\* ------------------------------------------------------------------------
\* at most this many days of a scenario reproduce the birth longitudes
MaxFull == 2

SpecialOffsets == {0, 1, 40, 365, 366, 370}

FullChoices == {S \in SUBSET SpecialOffsets : Cardinality(S) <= MaxFull}

PartChoices == {{}, {40}}

FailChoices == {{}, {0, 39}, {1, 365}}

MaxDaysChoices == {2, 41, 366, DefaultMaxDays, 450}

BirthChoices == {[sun |-> Deg(10), moon |-> Deg(130)],
                 [sun |-> Deg(355), moon |-> Deg(5)]}

\* the birth lies this many days before the epoch
DobAge == 7000

DobDay == 0 - DobAge

Shift(S, base) == {base + o : o \in S}

NoForm == [input_dob |-> DobDay, input_time |-> Noon,
           selected_state |-> "Telangana", selected_district |-> "Hyderabad",
           input_manual |-> FALSE, input_lat |-> 0, input_lon |-> 0,
           input_tz |-> "UTC", input_year_search |-> BaseYear]

IdleSearch ==
    /\ spc = "idle"
    /\ start_date_obj = 0
    /\ max_days = 0
    /\ i = 0
    /\ cand_local = None
    /\ ret = None
    /\ last_eval = -1

IdleRequest ==
    /\ form = NoForm
    /\ jd_ut = None
    /\ vedic_dob_requested_year = None
    /\ vedic_dob_next_year = None
    /\ requested_year_value = None
    /\ next_year_value = None
    /\ ui = {}
    /\ db = << >>

IdleThreads == thr = << >>

IdlePure == pure = None

\* ------------------------------------------------------------------------
\* SpecSearch: find_vedic_anniversary called with any start date and any
\* max_days, for the reference of a birth whose elements were derived
\* ------------------------------------------------------------------------
InitSearch ==
    /\ pc = "search"
    /\ IdleRequest
    /\ tz_name \in {"Asia/Kolkata", "Mars/Phobos"}
    /\ \E b \in BirthChoices, full \in FullChoices, part \in PartChoices,
          fail \in FailChoices, fa \in BOOLEAN, start \in {0, 59} :
          /\ fa => (fail = {} /\ part = {} /\ Cardinality(full) = 1)
          /\ start = 59 => (fail = {} /\ part = {})
          /\ tz_name = "Mars/Phobos"
                => (fail = {} /\ part = {} /\ start = 0 /\ Cardinality(full) <= 1)
          /\ env = [today |-> start, current_year |-> BaseYear,
                    supabase |-> FALSE, birth_raw |-> b,
                    birth_fails |-> FALSE, full |-> Shift(full, start),
                    part |-> Shift(part, start), fail |-> Shift(fail, start),
                    fail_all |-> fa]
          /\ ref = Some(Elements([sun_sid |-> b.sun, moon_sid |-> b.moon]))
          /\ start_date_obj = start
    /\ lat = 17 /\ lon = 78
    /\ max_days \in MaxDaysChoices
    /\ spc = "loop"
    /\ i = 0
    /\ cand_local = None
    /\ ret = None
    /\ last_eval = -1
    /\ swe_topo = None
    /\ calls = 0
    /\ IdleThreads
    /\ IdlePure

NextSearch ==
    \/ LoopEnd
    \/ IterProviderFails
    \/ IterMatch
    \/ IterNoMatch

SpecSearch == InitSearch /\ [][NextSearch]_vars

\* ------------------------------------------------------------------------
\* The submit handler of app.py
\* ------------------------------------------------------------------------
DISTRICT_DATA ==
    <<"Telangana", "Hyderabad">> :> [lat |-> 17, lon |-> 78, tz |-> "Asia/Kolkata"]
    @@ <<"Delhi", "New Delhi">> :> [lat |-> 28, lon |-> 77, tz |-> "Asia/Kolkata"]

\* DISTRICT_DATA.get(state, {}).get(district, {"lat": 0.0, "lon": 0.0, "tz": "UTC"})
default_data(state, district) ==
    IF <<state, district>> \in DOMAIN DISTRICT_DATA
    THEN DISTRICT_DATA[<<state, district>>]
    ELSE [lat |-> 0, lon |-> 0, tz |-> "UTC"]

\* lines 248-271: the values of the request are read from the session state
Submit ==
    /\ pc = "form"
    /\ IF form.input_manual
       THEN /\ lat' = form.input_lat
            /\ lon' = form.input_lon
            /\ tz_name' = form.input_tz
       ELSE LET dd == default_data(form.selected_state, form.selected_district)
            IN  /\ lat' = dd.lat
                /\ lon' = dd.lon
                /\ tz_name' = dd.tz
    /\ pc' = "localize"
    /\ UNCHANGED <<form, env, jd_ut, ref, vedic_dob_requested_year,
                   vedic_dob_next_year, requested_year_value,
                   next_year_value, ui, db>>
    /\ UNCHANGED <<srchVars, sweVars, thr, pure>>

\* lines 274-283: the zone is resolved, Asia/Kolkata replacing an unknown
\* one with a warning, and the birth instant is computed
LocalizeBirth ==
    /\ pc = "localize"
    /\ LET known    == PytzTimezone(tz_name) # None
           local_tz == IF known THEN Val(PytzTimezone(tz_name))
                                ELSE Val(PytzTimezone("Asia/Kolkata"))
           local_dt == Localize(local_tz, form.input_dob, form.input_time)
       IN  /\ ui' = (IF known THEN ui
                     ELSE ui \cup {"warning: Invalid timezone; defaulting to Asia/Kolkata"})
           /\ jd_ut' = Some(jd_from_utc(local_dt))
    /\ pc' = "birth"
    /\ UNCHANGED <<form, env, lat, lon, tz_name, ref,
                   vedic_dob_requested_year, vedic_dob_next_year,
                   requested_year_value, next_year_value, db>>
    /\ UNCHANGED <<srchVars, sweVars, thr, pure>>

BirthFails_no_stop ==
    /\ pc = "birth"
    /\ sun_moon_sidereal_topo(Val(jd_ut)) = None
    /\ TopoCall(Val(jd_ut), lon, lat)
    /\ ui' = ui \cup {"error: Error from Swiss Ephemeris"}
    /\ pc' = "save"
    /\ UNCHANGED <<form, env, lat, lon, tz_name, jd_ut, ref,
                   vedic_dob_requested_year, vedic_dob_next_year,
                   requested_year_value, next_year_value, db>>
    /\ UNCHANGED <<srchVars, thr, pure>>

\* lines 286-291: the ephemeris raises for the birth instant: st.error, st.stop
BirthFails ==
    /\ pc = "birth"
    /\ sun_moon_sidereal_topo(Val(jd_ut)) = None
    /\ TopoCall(Val(jd_ut), lon, lat)
    /\ ui' = ui \cup {"error: Error from Swiss Ephemeris"}
    /\ pc' = "stopped"
    /\ UNCHANGED <<form, env, lat, lon, tz_name, jd_ut, ref,
                   vedic_dob_requested_year, vedic_dob_next_year,
                   requested_year_value, next_year_value, db>>
    /\ UNCHANGED <<srchVars, thr, pure>>

\* lines 286-343: the birth longitudes are read and the elements derived
BirthDerive ==
    /\ pc = "birth"
    /\ sun_moon_sidereal_topo(Val(jd_ut)) # None
    /\ TopoCall(Val(jd_ut), lon, lat)
    /\ ref' = Some(Elements(Val(sun_moon_sidereal_topo(Val(jd_ut)))))
    /\ pc' = "derived"
    /\ UNCHANGED <<form, env, lat, lon, tz_name, jd_ut,
                   vedic_dob_requested_year, vedic_dob_next_year,
                   requested_year_value, next_year_value, ui, db>>
    /\ UNCHANGED <<srchVars, thr, pure>>

year_to_search == form.input_year_search

\* lines 383-388
start_date_requested_year ==
    IF year_to_search = env.current_year THEN env.today
                                         ELSE Jan1(year_to_search)

\* lines 382-391: the search of the requested year is started
StartSearch1 ==
    /\ pc = "derived"
    /\ CallFind(start_date_requested_year, DefaultMaxDays)
    /\ pc' = "search1"
    /\ UNCHANGED <<form, env, lat, lon, tz_name, jd_ut, ref,
                   vedic_dob_requested_year, vedic_dob_next_year,
                   requested_year_value, next_year_value, ui, db>>
    /\ UNCHANGED <<sweVars, thr, pure>>

start_date_next_year_same_day(first) ==
    IF first # None THEN Val(first) ELSE Jan1(year_to_search + 1)

\* lines 394-399
start_date_next_year(first) ==
    IF first # None THEN Val(first) + 1 ELSE Jan1(year_to_search + 1)

\* lines 391-402: the first search has returned, the second one is started
ChainSearch2 ==
    /\ pc = "search1" /\ spc = "returned"
    /\ vedic_dob_requested_year' = ret
    /\ CallFind(start_date_next_year(ret), DefaultMaxDays)
    /\ pc' = "search2"
    /\ UNCHANGED <<form, env, lat, lon, tz_name, jd_ut, ref,
                   vedic_dob_next_year, requested_year_value,
                   next_year_value, ui, db>>
    /\ UNCHANGED <<sweVars, thr, pure>>

\* str(date)
StrDate(d) == <<"date", d>>

RequestedYearValue_start_date(found) ==
    IF found # None THEN StrDate(Val(found))
                    ELSE StrDate(start_date_requested_year)

\* lines 416-424
RequestedYearValue(found) ==
    IF found # None THEN StrDate(Val(found))
    ELSE IF year_to_search = env.current_year
         THEN <<"Passed already in", year_to_search>>
         ELSE <<"Not found in", year_to_search>>

\* lines 427-432
NextYearValue(found) ==
    IF found # None THEN StrDate(Val(found))
                    ELSE <<"Not found in", year_to_search + 1>>

\* lines 402-445: the second search has returned, both results are shown
Render ==
    /\ pc = "search2" /\ spc = "returned"
    /\ vedic_dob_next_year' = ret
    /\ requested_year_value' = RequestedYearValue(vedic_dob_requested_year)
    /\ next_year_value' = NextYearValue(ret)
    /\ pc' = "save"
    /\ UNCHANGED <<form, env, lat, lon, tz_name, jd_ut, ref,
                   vedic_dob_requested_year, ui, db>>
    /\ UNCHANGED <<srchVars, sweVars, thr, pure>>

\* the row of lines 452-469
UserRow ==
    [dob |-> form.input_dob, time_of_birth |-> form.input_time,
     state |-> form.selected_state, district |-> form.selected_district,
     lat |-> lat, lon |-> lon,
     vedic_tithi |-> Val(ref).tname, vedic_paksha |-> Val(ref).paksha,
     vedic_nakshatra |-> Val(ref).nak_name,
     vedic_nakshatra_pada |-> Val(ref).nak_pada,
     vedic_masa |-> Val(ref).masa_name, vedic_rashi |-> Val(ref).rashi_name,
     vedic_sun_rashi |-> Val(ref).sun_rashi_name,
     requested_year_vedic_dob |-> requested_year_value,
     next_year_vedic_dob |-> next_year_value]

\* lines 449-470: the row is inserted
SaveInsert ==
    /\ pc = "save" /\ env.supabase
    /\ db' = Append(db, UserRow)
    /\ ui' = ui \cup {"success: Saved to Supabase"}
    /\ pc' = "done"
    /\ UNCHANGED <<form, env, lat, lon, tz_name, jd_ut, ref,
                   vedic_dob_requested_year, vedic_dob_next_year,
                   requested_year_value, next_year_value>>
    /\ UNCHANGED <<srchVars, sweVars, thr, pure>>

\* lines 471-472: the insert raises
SaveError ==
    /\ pc = "save" /\ env.supabase
    /\ ui' = ui \cup {"error: Could not save to Supabase"}
    /\ pc' = "done"
    /\ UNCHANGED <<form, env, lat, lon, tz_name, jd_ut, ref,
                   vedic_dob_requested_year, vedic_dob_next_year,
                   requested_year_value, next_year_value, db>>
    /\ UNCHANGED <<srchVars, sweVars, thr, pure>>

\* line 449: no supabase client
SaveSkip ==
    /\ pc = "save" /\ ~env.supabase
    /\ pc' = "done"
    /\ UNCHANGED <<form, env, lat, lon, tz_name, jd_ut, ref,
                   vedic_dob_requested_year, vedic_dob_next_year,
                   requested_year_value, next_year_value, ui, db>>
    /\ UNCHANGED <<srchVars, sweVars, thr, pure>>

\* the requests of the model: the form and the ephemeris are varied one
\* at a time around a plain request
PlainForm == [input_dob |-> DobDay, input_time |-> 390,
              selected_state |-> "Telangana",
              selected_district |-> "Hyderabad",
              input_manual |-> FALSE, input_lat |-> 17, input_lon |-> 78,
              input_tz |-> "Asia/Kolkata", input_year_search |-> BaseYear]

FormChoices ==
    {[PlainForm EXCEPT !.input_time = t, !.selected_state = st,
                       !.input_year_search = y] :
        t \in {390, Noon}, st \in {"Telangana", "Delhi"},
        y \in {BaseYear, BaseYear + 1}}
    \cup
    {[PlainForm EXCEPT !.input_manual = TRUE, !.input_lat = la,
                       !.input_lon = lo, !.input_tz = tz] :
        la \in {17, 95, -91}, lo \in {78, 200}, tz \in {"Asia/Kolkata", "UTC", "Mars/Phobos"}}

FlowFullChoices == {{}, {0}, {40}, {0, 1}, {40, 365}, {366}, {300, 370}}

TodayOffset == 100

Init ==
    /\ pc = "form"
    /\ \E f \in FormChoices, b \in BirthChoices, full \in FlowFullChoices,
          fail \in FailChoices, bf \in BOOLEAN, sb \in BOOLEAN :
          /\ (f.input_manual \/ f.selected_state # "Telangana")
                => (full = {40} /\ fail = {} /\ b.sun = Deg(10))
          /\ bf => (full = {} /\ fail = {})
          /\ fail # {} => Cardinality(full) = 1
          /\ form = f
          /\ LET today == Jan1(BaseYear) + TodayOffset
                 base  == IF f.input_year_search = BaseYear
                          THEN today ELSE Jan1(f.input_year_search)
             IN  env = [today |-> today, current_year |-> BaseYear,
                        supabase |-> sb, birth_raw |-> b,
                        birth_fails |-> bf, full |-> Shift(full, base),
                        part |-> {}, fail |-> Shift(fail, base),
                        fail_all |-> FALSE]
    /\ lat = 0 /\ lon = 0 /\ tz_name = "UTC"
    /\ jd_ut = None
    /\ ref = None
    /\ vedic_dob_requested_year = None
    /\ vedic_dob_next_year = None
    /\ requested_year_value = None
    /\ next_year_value = None
    /\ ui = {}
    /\ db = << >>
    /\ IdleSearch
    /\ swe_topo = None
    /\ calls = 0
    /\ IdleThreads
    /\ IdlePure

Next ==
    \/ Submit
    \/ LocalizeBirth
    \/ BirthFails
    \/ BirthDerive
    \/ StartSearch1
    \/ LoopEnd
    \/ IterProviderFails
    \/ IterMatch
    \/ IterNoMatch
    \/ ChainSearch2
    \/ Render
    \/ SaveInsert
    \/ SaveError
    \/ SaveSkip

Spec == Init /\ [][Next]_vars

\* ------------------------------------------------------------------------
\* SpecTopo: two requests of different places computed by two threads of
\* the same process.  sun_moon_sidereal_topo is three library calls
\* (swe.set_topo, swe.calc_ut for the Sun, swe.calc_ut for the Moon) and a
\* thread may be scheduled between any two of them; swe.set_topo writes the
\* one observer of the process.
\* ------------------------------------------------------------------------
Threads == {1, 2}

\* calls of sun_moon_sidereal_topo made by each thread
MaxReads == 2

Places == {<<r.lon, r.lat, 0>> : r \in {DISTRICT_DATA[k] : k \in DOMAIN DISTRICT_DATA}}
          \cup {<<0, 0, 0>>}

InitTopo ==
    /\ pc = "threads"
    /\ IdleRequest
    /\ env = [today |-> 0, current_year |-> BaseYear, supabase |-> FALSE,
              birth_raw |-> OtherRaw, birth_fails |-> FALSE, full |-> {},
              part |-> {}, fail |-> {}, fail_all |-> FALSE]
    /\ lat = 0 /\ lon = 0 /\ tz_name = "UTC"
    /\ ref = None
    /\ IdleSearch
    /\ swe_topo = None
    /\ calls = 0
    /\ \E p1 \in Places, p2 \in Places :
          /\ p1 # p2
          /\ thr = [t \in Threads |->
                      [at |-> "set_topo", place |-> IF t = 1 THEN p1 ELSE p2,
                       n |-> 0, sun_topo |-> None, moon_topo |-> None]]
    /\ IdlePure

\* line 99: swe.set_topo(lon_deg, lat_deg, height_m)
ThreadSetTopo(t) ==
    /\ pc = "threads"
    /\ thr[t].at = "set_topo"
    /\ swe_topo' = thr[t].place
    /\ thr' = [thr EXCEPT ![t].at = "calc_sun"]
    /\ UNCHANGED <<reqVars, srchVars, calls, pure>>

\* line 102: swe.calc_ut(jd_ut, swe.SUN, flags) reads the observer in force
ThreadCalcSun(t) ==
    /\ pc = "threads"
    /\ thr[t].at = "calc_sun"
    /\ thr' = [thr EXCEPT ![t].at = "calc_moon", ![t].sun_topo = swe_topo]
    /\ calls' = calls + 1
    /\ UNCHANGED <<reqVars, srchVars, swe_topo, pure>>

\* line 103: swe.calc_ut(jd_ut, swe.MOON, flags); the next call follows
ThreadCalcMoon(t) ==
    /\ pc = "threads"
    /\ thr[t].at = "calc_moon"
    /\ thr' = [thr EXCEPT ![t].at = IF thr[t].n + 1 < MaxReads
                                     THEN "set_topo" ELSE "done",
                          ![t].n = thr[t].n + 1,
                          ![t].moon_topo = swe_topo]
    /\ calls' = calls + 1
    /\ UNCHANGED <<reqVars, srchVars, swe_topo, pure>>

NextTopo ==
    \E t \in Threads : ThreadSetTopo(t) \/ ThreadCalcSun(t) \/ ThreadCalcMoon(t)

SpecTopo == InitTopo /\ [][NextTopo]_vars

\* ------------------------------------------------------------------------
\* SpecPure: the pure derivations applied to longitudes of [0, 360)
\* ------------------------------------------------------------------------
\* representable longitudes, among them neighbours closer than the spacing
\* of the floats near 360
PureLongitudes ==
    {x \in {Deg(0), Deg(5), Deg(10), Deg(12), Deg(24) - Scale \div 16,
            Deg(30), Deg(40), Deg(120),
            Deg(100), Deg(100) + Scale \div 4, Deg(130), Deg(180),
            Deg(250), Deg(355), Deg(359)} : RoundFloat(x) = x}

InitPure ==
    /\ pc = "pure"
    /\ IdleRequest
    /\ env = [today |-> 0, current_year |-> BaseYear, supabase |-> FALSE,
              birth_raw |-> OtherRaw, birth_fails |-> FALSE, full |-> {},
              part |-> {}, fail |-> {}, fail_all |-> FALSE]
    /\ lat = 0 /\ lon = 0 /\ tz_name = "UTC"
    /\ ref = None
    /\ IdleSearch
    /\ swe_topo = None
    /\ calls = 0
    /\ IdleThreads
    /\ \E s \in PureLongitudes, m \in PureLongitudes :
          pure = Some([fn |-> "input", sun |-> s, moon |-> m, num |-> 0,
                       num2 |-> 0])

\* tnum, ... = tithi_from_sidereal(sun_sid, moon_sid)
CallTithiFromSidereal ==
    /\ pc = "pure" /\ Val(pure).fn = "input"
    /\ pure' = Some([Val(pure) EXCEPT
                       !.fn = "tithi_from_sidereal",
                       !.num = tithi_from_sidereal(Val(pure).sun,
                                                   Val(pure).moon).tnum])
    /\ UNCHANGED <<reqVars, srchVars, sweVars, thr>>

\* get_tithi for a day whose longitudes are moon and sun
CallGetTithi ==
    /\ pc = "pure" /\ Val(pure).fn = "input"
    /\ pure' = Some([Val(pure) EXCEPT
                       !.fn = "get_tithi",
                       !.num = get_tithi(Val(pure).moon,
                                         Val(pure).sun).tithi_num])
    /\ UNCHANGED <<reqVars, srchVars, sweVars, thr>>

\* nakshatra_from_sidereal applied to two longitudes; num, num2 are idx0
CallNakshatraFromSidereal ==
    /\ pc = "pure" /\ Val(pure).fn = "input"
    /\ pure' = Some([Val(pure) EXCEPT
                       !.fn = "nakshatra_from_sidereal",
                       !.num = nakshatra_from_sidereal(Val(pure).moon).idx - 1,
                       !.num2 = nakshatra_from_sidereal(Val(pure).sun).idx - 1])
    /\ UNCHANGED <<reqVars, srchVars, sweVars, thr>>

\* rashi_from_sidereal applied to two longitudes; num, num2 are idx
CallRashiFromSidereal ==
    /\ pc = "pure" /\ Val(pure).fn = "input"
    /\ pure' = Some([Val(pure) EXCEPT
                       !.fn = "rashi_from_sidereal",
                       !.num = rashi_from_sidereal(Val(pure).moon).idx - 1,
                       !.num2 = rashi_from_sidereal(Val(pure).sun).idx - 1])
    /\ UNCHANGED <<reqVars, srchVars, sweVars, thr>>

NextPure ==
    \/ CallTithiFromSidereal
    \/ CallGetTithi
    \/ CallNakshatraFromSidereal
    \/ CallRashiFromSidereal

SpecPure == InitPure /\ [][NextPure]_vars

\* ------------------------------------------------------------------------
\* Properties
\* ------------------------------------------------------------------------
\* the ephemeris answers for the candidate of offset k
Answers(k) == sun_moon_sidereal_topo(jd_from_utc(CandAt(k))) # None

ElementsAt(k) == Elements(Val(sun_moon_sidereal_topo(jd_from_utc(CandAt(k)))))

\* tithi number, nakshatra, Moon rashi and masa of offset k equal the reference
FourEqual(k) ==
    /\ Answers(k)
    /\ ElementsAt(k).tnum = Val(ref).tnum
    /\ ElementsAt(k).nak_name = Val(ref).nak_name
    /\ ElementsAt(k).rashi_name = Val(ref).rashi_name
    /\ ElementsAt(k).masa_name = Val(ref).masa_name

\* tithi number and masa of offset k equal the reference
TwoEqual(k) ==
    /\ Answers(k)
    /\ ElementsAt(k).tnum = Val(ref).tnum
    /\ ElementsAt(k).masa_name = Val(ref).masa_name

\* the earliest date of the first h offsets satisfying P, None without one
FirstDate(P(_), h) ==
    IF \E k \in 0..(h - 1) : P(k)
    THEN Some(start_date_obj
              + (CHOOSE k \in 0..(h - 1) :
                    P(k) /\ \A j \in 0..(k - 1) : ~P(j)))
    ELSE None

\* the offsets the loop can read: range(max_days) cut by the break
Horizon == Min(max_days, CycleDays + 1)

\* the shorter window of the fallback tier
FallbackWindow == Min(max_days, CycleDays)

Returned == spc = "returned"

\* C1 as stated: the search returns the earliest day of the first max_days
\* days whose four elements equal the reference, and reads no later day
C1_FirstMatchInMaxDays ==
    Returned =>
        /\ ret = FirstDate(FourEqual, max_days)
        /\ ret # None => last_eval = Val(ret) - start_date_obj

\* C1 amended: the search returns the earliest day among the offsets
\* 0 .. min(max_days, 366) - 1 whose four elements equal the reference and
\* reads no later day; a first match at offset 366 or later is not returned
C1_FirstMatch ==
    /\ last_eval < Horizon
    /\ Returned =>
        /\ ret = FirstDate(FourEqual, Horizon)
        /\ ret # None => last_eval = Val(ret) - start_date_obj

C1_Witness ==
    /\ Returned /\ max_days = 450
    /\ ret = Some(start_date_obj + 365)
    /\ start_date_obj + 370 \in env.full

\* C2 as stated: without a four-element match the first day of the fallback
\* window whose tithi number and masa equal the reference is returned
C2_FallbackTier ==
    (Returned /\ FirstDate(FourEqual, max_days) = None)
        => ret = FirstDate(TwoEqual, FallbackWindow)

\* C2 amended: without a four-element match in the horizon the search
\* returns None; a day on which only tithi number and masa equal the
\* reference is never returned
C2_NoFallbackTier ==
    Returned =>
        /\ FirstDate(FourEqual, Horizon) = None => ret = None
        /\ ret # None => FourEqual(Val(ret) - start_date_obj)

C2_Witness ==
    /\ Returned /\ ret = None /\ max_days > 40
    /\ TwoEqual(40) /\ ~FourEqual(40)
    /\ last_eval >= 40

\* C4: a failure of the ephemeris for a day skips that day only: it is not
\* the returned date, the search returns None only at the end of its
\* horizon, every matching day of the horizon is returned unless an earlier
\* one is, and failures on every day end in None
C4_FailureSkipsDay ==
    /\ Returned /\ ret # None => Answers(Val(ret) - start_date_obj)
    /\ Returned /\ ret = None => i >= Horizon
    /\ Returned =>
          \A j \in 0..(Horizon - 1) :
             FourEqual(j) => (ret # None /\ Val(ret) <= start_date_obj + j)
    /\ Returned /\ env.fail_all => ret = None
    /\ spc = "loop" => last_eval = i - 1

C4_Witness ==
    /\ Returned
    /\ ret = Some(start_date_obj + 40)
    /\ ~Answers(39) /\ ~Answers(0)

\* C5: a returned date is never earlier than start_date
C5_Monotonic == ret # None => Val(ret) >= start_date_obj

C5_Witness == Returned /\ ret # None /\ Val(ret) > start_date_obj

\* C3 as stated: when no day matches, the search returns its start date
C3_ReturnsStartDate ==
    (Returned /\ FirstDate(FourEqual, Horizon) = None
              /\ FirstDate(TwoEqual, FallbackWindow) = None)
        => ret = Some(start_date_obj)

IsDateText(v) == v # None /\ v[1] = "date"

NoMatchTexts ==
    {<<"Passed already in", year_to_search>>,
     <<"Not found in", year_to_search>>,
     <<"Not found in", year_to_search + 1>>}

\* C3 amended: when no day of the horizon matches, the search returns None,
\* not its start date; the value shown and saved for a search without a
\* match is a "Not found in" / "Passed already in" text and never a date,
\* the value of a match is its date, and the request goes on to the end
\* without an error
C3_NoMatchReported ==
    /\ (Returned /\ FirstDate(FourEqual, Horizon) = None) => ret = None
    /\ pc \in {"save", "done"} =>
        /\ vedic_dob_requested_year = None
              => requested_year_value \in NoMatchTexts
        /\ vedic_dob_requested_year # None
              => requested_year_value = <<"date", Val(vedic_dob_requested_year)>>
        /\ vedic_dob_next_year = None => next_year_value \in NoMatchTexts
        /\ vedic_dob_next_year # None
              => next_year_value = <<"date", Val(vedic_dob_next_year)>>
        /\ "error: Error from Swiss Ephemeris" \notin ui
        /\ \A n \in 1..Len(db) :
              /\ db[n].requested_year_vedic_dob = requested_year_value
              /\ db[n].next_year_vedic_dob = next_year_value

C3_Witness ==
    /\ pc = "done" /\ Len(db) = 1
    /\ vedic_dob_requested_year = None
    /\ ~IsDateText(db[1].requested_year_vedic_dob)
    /\ vedic_dob_next_year # None

\* C6 as stated: every candidate has the clock time of the birth instant
C6_BirthClockTime ==
    cand_local # None => Val(cand_local).time = form.input_time

\* C6 amended: every candidate instant has the local clock time 12:00,
\* whatever the clock time of the birth instant; from one candidate to the
\* next only the civil date changes, by exactly one day, the first
\* candidate being the start date
C6_NoonCandidates ==
    [][(cand_local' # cand_local /\ cand_local' # None) =>
          /\ Val(cand_local').time = Noon
          /\ Val(cand_local').utcoffset = SearchTz
          /\ IF cand_local = None
             THEN Val(cand_local').date = start_date_obj
             ELSE Val(cand_local').date = Val(cand_local).date + 1]_vars

C6_Witness ==
    /\ cand_local # None
    /\ Val(cand_local).date = start_date_obj + 2
    /\ Val(cand_local).time = Noon
    /\ form.input_time # Noon

\* C7: a computation reads the Sun and the Moon only while the observer of
\* the process is its own place
C7_AtomicObserver ==
    pc = "threads" =>
        \A t \in Threads :
            /\ thr[t].sun_topo \in {None, thr[t].place}
            /\ thr[t].moon_topo \in {None, thr[t].place}

InvalidInput ==
    \/ lat < -90 \/ lat > 90
    \/ lon < -180 \/ lon > 180
    \/ PytzTimezone(tz_name) = None

\* C8: a request with a malformed location or an unknown zone is rejected
\* before the ephemeris is called, and no instant is computed for it with a
\* default zone
C8_InvalidRejected ==
    (pc \notin {"form", "threads", "pure", "search"} /\ InvalidInput)
        => (calls = 0 /\ (PytzTimezone(tz_name) = None => jd_ut = None))

\* C9: when the ephemeris fails for the birth instant the error is shown
\* and the request stops: no element is derived, no search runs, nothing is
\* saved
C9_BirthFailureFatal ==
    (env.birth_fails /\ pc \notin {"form", "localize", "birth"}) =>
        /\ pc = "stopped"
        /\ "error: Error from Swiss Ephemeris" \in ui
        /\ ref = None
        /\ spc = "idle" /\ last_eval = -1
        /\ vedic_dob_requested_year = None /\ vedic_dob_next_year = None
        /\ requested_year_value = None /\ next_year_value = None
        /\ db = << >>
        /\ calls = 1

C9_Witness == pc = "stopped" /\ env.supabase /\ swe_topo # None

\* C10: the tithi number of both functions lies in 1..30 for every pair of
\* longitudes; equal longitudes give 1, and so do sun 355, moon 5
C10_TithiRange ==
    (pure # None /\ Val(pure).fn # "input") =>
        /\ Val(pure).num \in 1..30
        /\ Val(pure).sun = Val(pure).moon => Val(pure).num = 1
        /\ (Val(pure).sun = Deg(355) /\ Val(pure).moon = Deg(5))
              => Val(pure).num = 1

\* index n is the one sector of `count` equal sectors that holds longitude x:
\* the sector starts at n * 360 / count, its start included, its end excluded
InSector(x, n, count) ==
    /\ n \in 0..(count - 1)
    /\ n * Deg(360) <= x * count
    /\ x * count < (n + 1) * Deg(360)

\* C11: nakshatra_from_sidereal and rashi_from_sidereal map every longitude
\* of [0, 360) to the one of 27 (of 12) equal sectors that holds it, a
\* boundary belonging to the sector it starts, and the index does not
\* decrease with the longitude
C11_EqualSectors ==
    (pure # None /\ Val(pure).fn \in {"nakshatra_from_sidereal",
                                      "rashi_from_sidereal"}) =>
        LET count == IF Val(pure).fn = "rashi_from_sidereal" THEN 12 ELSE 27
        IN  /\ InSector(Val(pure).moon, Val(pure).num, count)
            /\ InSector(Val(pure).sun, Val(pure).num2, count)
            /\ Val(pure).sun <= Val(pure).moon
                  => Val(pure).num2 <= Val(pure).num

\* C12: whatever max_days is, only offsets 0..365 are read, a returned date
\* lies in start_date .. start_date + 365, a first match at offset 366 or
\* later gives None, and the function terminates: every step of the loop
\* either returns or moves to the next offset, and the offset never exceeds
\* 366, so that a call takes at most 367 steps
C12_BoundedScan ==
    /\ [](/\ last_eval <= CycleDays
          /\ i <= CycleDays + 1
          /\ ret # None => /\ Val(ret) >= start_date_obj
                           /\ Val(ret) <= start_date_obj + CycleDays
          /\ (Returned /\ \A k \in 0..CycleDays : ~FourEqual(k)) => ret = None)
    /\ [][spc = "loop" => (spc' = "returned" \/ i' = i + 1)]_vars

C12_Witness ==
    /\ Returned /\ ret = None
    /\ max_days = DefaultMaxDays
    /\ FirstDate(FourEqual, max_days) = Some(start_date_obj + CycleDays + 1)
    /\ last_eval = CycleDays

\* C13: the second search starts the day after the date found by the first
\* one, or on 1 January of year_to_search + 1 when the first found none;
\* two dates found by the two searches are different days, the second later
C13_ChainedSearches ==
    /\ pc = "search2" =>
          start_date_obj = (IF vedic_dob_requested_year # None
                            THEN Val(vedic_dob_requested_year) + 1
                            ELSE Jan1(form.input_year_search + 1))
    /\ (pc \in {"search2", "save", "done"}
           /\ vedic_dob_requested_year # None
           /\ (IF pc = "search2" THEN ret ELSE vedic_dob_next_year) # None)
          => Val(IF pc = "search2" THEN ret ELSE vedic_dob_next_year)
                > Val(vedic_dob_requested_year)

C13_Witness ==
    /\ pc = "done"
    /\ vedic_dob_requested_year # None /\ vedic_dob_next_year # None
    /\ Val(vedic_dob_next_year) = Val(vedic_dob_requested_year) + 1

====
